---- MODULE Spec2Model ----
(***************************************************************************)
(* The session-orchestration state machine of the autonomous coding CLI:   *)
(* run_autonomous_agent (cli/orchestrator.py) with the functions it calls  *)
(* (setup_project, detect_project_maturity, the spec-phase sessions,       *)
(* run_cli_session, run_qa_session) and the prompt loader (cli/prompts.py).*)
(*                                                                         *)
(* One run of run_autonomous_agent is one behaviour.  pc is the position   *)
(* of the single thread of control; every blocking point of the code (an   *)
(* agent subprocess, an input() call) is a pc value, so that the state     *)
(* "while the session runs" can be inspected.  The project directory is    *)
(* abstracted to the facts the code reads from it.  The agent is an        *)
(* external process: a session may create the artifacts and grow the       *)
(* repository; artifacts that exist are not removed by a session.          *)
(***************************************************************************)
EXTENDS Integers, Sequences, FiniteSets, TLC

\* ---------------------------------------------------------------- bounds
\* Largest iteration cap passed as max_iterations.
MaxCap == 2
\* Iterations explored in runs the cap does not stop (None, 0).
MaxTurns == 3

\* ------------------------------------------------------ program constants
\* commit_count >= 5
CommitThreshold == 5

\* Optional[T]: None is the empty tuple, a value v is <<v>>.
None == <<>>
Some(v) == <<v>>

\* first_prompt = None
NoPrompt == "None"

SpecRoles == {"Audit", "SpecInterview", "SpecOneShot"}
FirstRoles == {"Initializer", "Enhancer"}
Roles == SpecRoles \cup FirstRoles \cup {"Coding", "Qa"}

\* The prompt template each get_*_prompt loads.
TemplateOf(role) ==
    CASE role = "Audit" -> "app_audit_prompt"
      [] role \in {"SpecInterview", "SpecOneShot"} -> "spec_generator_prompt"
      [] role = "Initializer" -> "initializer_prompt"
      [] role = "Enhancer" -> "enhancer_prompt"
      [] role = "Coding" -> "coding_prompt"
      [] role = "Qa" -> "qa_prompt"

AllTemplates == {TemplateOf(r) : r \in Roles}

\* load_prompt: read_text succeeds iff the template file is there.
Loads(present, role) == TemplateOf(role) \in present

\* The one recognized source file a project of its own is given here, and the
\* hook script setup_project copies.
OwnSource == "app.py"
HookScript == ".claude/hooks/validate-bash.py"

\* str.strip() on a sequence of characters (whitespace is " ").
RECURSIVE LStrip(_)
LStrip(s) == IF s # <<>> /\ Head(s) = " " THEN LStrip(Tail(s)) ELSE s
RECURSIVE RStrip(_)
RStrip(s) ==
    IF s # <<>> /\ s[Len(s)] = " " THEN RStrip(SubSeq(s, 1, Len(s) - 1)) ELSE s
Strip(s) == RStrip(LStrip(s))

VARIABLES
    pc,              \* position in run_autonomous_agent
    max_iterations,  \* Optional[int]
    description,     \* Optional[str]
    non_interactive,
    audit,
    templates,       \* the prompt templates present in PROMPTS_DIR
    harness_hooks,   \* CLI_HARNESS_DIR/.claude/hooks exists
    spec_at_start,   \* app_spec.txt existed when the run began
    spec_file,       \* app_spec.txt exists
    tests_file,      \* feature_list.json exists
    has_git,         \* .git exists
    commit_count,    \* git rev-list --count HEAD
    source_files,    \* recognized source files under the project directory
    maturity,
    maturity_details, \* the details dict detect_project_maturity returns
    choice,          \* Optional[str]: the stripped answer to "Choose [1/2]"
    offered,         \* the audit-vs-new-spec choice was shown
    asked,           \* input() asked for a description
    spec_role,       \* the spec-phase session chosen, "None" if none
    spec_outcome,    \* how the spec-phase session ended
    spec_stdout,     \* Optional[str]: result.stdout of the one-shot session
    wrote_spec,      \* the orchestrator itself wrote app_spec.txt
    is_first_run,
    first_prompt,
    iteration,
    prompt,          \* the role of the prompt of the current primary session
    output,
    return_code,
    qa_return_code,
    started,         \* role -> number of sessions of that role started
    qa_in_turn,      \* Qa sessions started since the iteration counter moved
    exit_status      \* Optional[int]: the exit status of the process, once ended

config == <<max_iterations, non_interactive, audit, templates, harness_hooks,
           spec_at_start>>
repo == <<has_git, commit_count, source_files>>
gate == <<offered, asked, spec_role, spec_outcome, spec_stdout, wrote_spec>>
cursor == <<is_first_run, first_prompt, iteration, prompt>>
results == <<output, return_code, qa_return_code>>
history == <<started, qa_in_turn>>
detected == <<maturity, maturity_details>>
vars == <<pc, config, description, spec_file, tests_file, repo, detected, choice,
          gate, cursor, results, history, exit_status>>

\* ------------------------------------------------------------ input sets
MaxIterationsInputs == {None} \cup {Some(n) : n \in -1 .. MaxCap}
DescriptionInputs == {None, Some(<<>>), Some(<<" ">>), Some(<<"d">>)}
\* What the operator can type at an input(): Some(line), or None at end of input.
ChoiceLines == {<<>>, <<"1">>, <<"2">>, <<" ", "2", " ">>, <<"3">>}
DescriptionLines == {<<>>, <<" ">>, <<"d">>, <<" ", "d">>}

\* details before detection: has_git False, commit_count 0, no files found.
NoDetails == [has_git |-> FALSE, commit_count |-> 0, source_files_found |-> {}]

Init ==
    /\ pc = "setup"
    /\ max_iterations \in MaxIterationsInputs
    /\ description \in DescriptionInputs
    /\ non_interactive \in BOOLEAN
    /\ audit \in BOOLEAN
    /\ templates = AllTemplates
    /\ harness_hooks \in BOOLEAN
    /\ spec_file \in BOOLEAN
    /\ spec_at_start = spec_file
    /\ tests_file \in BOOLEAN
    /\ has_git \in BOOLEAN
    /\ commit_count \in {0, CommitThreshold - 1, CommitThreshold}
    /\ (~has_git => commit_count = 0)
    /\ source_files \in {{}, {OwnSource}}
    /\ maturity = "None"
    /\ maturity_details = NoDetails
    /\ choice = None
    /\ offered = FALSE
    /\ asked = FALSE
    /\ spec_role = "None"
    /\ spec_outcome = "None"
    /\ spec_stdout = None
    /\ wrote_spec = FALSE
    /\ is_first_run = FALSE
    /\ first_prompt = NoPrompt
    /\ iteration = 0
    /\ prompt = "None"
    /\ output = ""
    /\ return_code = 0
    /\ qa_return_code = 0
    /\ started = [r \in Roles |-> 0]
    /\ qa_in_turn = 0
    /\ exit_status = None

\* ------------------------------------------------------------- startup
\* setup_project: the hooks directory of the harness, when it exists, is copied
\* into <project>/.claude/hooks, validate-bash.py with it.
SetupProject ==
    /\ pc = "setup"
    /\ source_files' =
           IF harness_hooks THEN source_files \cup {HookScript} ELSE source_files
    /\ pc' = "detect"
    /\ UNCHANGED <<config, description, spec_file, tests_file, has_git,
                   commit_count, detected, gate, cursor, results, history,
                   choice, exit_status>>

\* details["commit_count"]: the count git prints, 0 when there is no .git or
\* the query fails (non-zero exit, timeout, non-numeric output).
CommitCountRead(git, git_ok, count) == IF git /\ git_ok THEN count ELSE 0

\* Mutant: "commit_count > 5".
IsExistingAboveThreshold(git, count, files) ==
    git /\ count > CommitThreshold /\ Cardinality(files) > 0

\* is_existing of detect_project_maturity.
IsExisting(git, count, files) ==
    git /\ count >= CommitThreshold /\ Cardinality(files) > 0

DetectProjectMaturity(git, count, files) ==
    IF IsExisting(git, count, files) THEN "existing" ELSE "greenfield"

DetectMaturity ==
    /\ pc = "detect"
    /\ \E git_ok \in BOOLEAN :
          LET count == CommitCountRead(has_git, git_ok, commit_count)
          IN  /\ maturity' = DetectProjectMaturity(has_git, count, source_files)
              /\ maturity_details' = [has_git |-> has_git,
                                      commit_count |-> count,
                                      source_files_found |-> source_files]
    /\ pc' = "spec_check"
    /\ UNCHANGED <<config, description, spec_file, tests_file, repo, gate,
                   cursor, results, history, choice, exit_status>>

\* ----------------------------------------------------------- spec gate
\* Mutant: the maturity offer is tested before the audit flag.
SpecPhaseBranchOfferFirst(aud, mat, nonint) ==
    IF mat = "existing" /\ ~nonint THEN "offer"
    ELSE IF aud THEN "audit"
    ELSE "standard"

\* Mutant: the offer is made to an existing project in every mode.
SpecPhaseBranchOfferAnyMode(aud, mat, nonint) ==
    IF aud THEN "audit"
    ELSE IF mat = "existing" THEN "offer"
    ELSE "standard"

\* Which branch of "if not spec_file.exists()" is taken.
SpecPhaseBranch(aud, mat, nonint) ==
    IF aud THEN "audit"
    ELSE IF mat = "existing" /\ ~nonint THEN "offer"
    ELSE "standard"

\* The session of the standard branch.
StandardRole(nonint) == IF nonint THEN "SpecOneShot" ELSE "SpecInterview"

\* choice = input(...).strip(), "1" at end of input.
ChoiceRead(answer) == IF answer = None THEN <<"1">> ELSE Strip(answer[1])

\* Mutant: "if choice == '1'" runs the audit, anything else the interview.
ChoiceRoleAuditOnOne(answer) ==
    IF ChoiceRead(answer) = <<"1">> THEN "Audit" ELSE "SpecInterview"

\* 'if choice != "2"': the session the answer selects.
ChoiceRole(answer) ==
    IF ChoiceRead(answer) # <<"2">> THEN "Audit" ELSE "SpecInterview"

\* "if not description": the empty string is the only falsy one.
DescriptionMissing(d) == d[1] = <<>>

\* The spec-phase function is entered: its prompt is loaded, then the agent
\* process is started.  A template that does not load raises out of the run.
BeginSpecSession(role) ==
    IF Loads(templates, role)
    THEN /\ pc' = "spec_session"
         /\ spec_role' = role
         /\ started' = [started EXCEPT ![role] = @ + 1]
    ELSE /\ pc' = "fault"
         /\ UNCHANGED <<spec_role, started>>

\* The description d is at hand: return when it is empty, else run the session.
GateOnDescription(d, role) ==
    /\ description' = d
    /\ IF DescriptionMissing(d)
       THEN pc' = "aborted" /\ UNCHANGED <<spec_role, started>>
       ELSE BeginSpecSession(role)

\* Mutant: the spec phase is entered whether or not the spec is there.
NeedsSpecAlways(exists) == TRUE

\* "if not spec_file.exists()"
NeedsSpec(exists) == ~exists

SpecCheck ==
    /\ pc = "spec_check"
    /\ IF ~NeedsSpec(spec_file)
       THEN /\ pc' = "step2"
            /\ UNCHANGED <<description, offered, asked, spec_role, started>>
       ELSE LET branch == SpecPhaseBranch(audit, maturity, non_interactive)
            IN  IF branch = "audit"
                THEN /\ BeginSpecSession("Audit")
                     /\ UNCHANGED <<description, offered, asked>>
                ELSE IF branch = "offer"
                THEN /\ pc' = "choice"
                     /\ offered' = TRUE
                     /\ UNCHANGED <<description, asked, spec_role, started>>
                ELSE IF description = None
                THEN /\ pc' = "ask_description"
                     /\ asked' = TRUE
                     /\ UNCHANGED <<description, offered, spec_role, started>>
                ELSE /\ GateOnDescription(description, StandardRole(non_interactive))
                     /\ UNCHANGED <<offered, asked>>
    /\ UNCHANGED <<config, spec_file, tests_file, repo, detected, spec_outcome,
                   spec_stdout, wrote_spec, cursor, results, qa_in_turn,
                   choice, exit_status>>

\* The operator answers "Choose [1/2]".
Choice ==
    /\ pc = "choice"
    /\ \E answer \in {None} \cup {Some(l) : l \in ChoiceLines} :
          /\ choice' = Some(ChoiceRead(answer))
          /\ IF ChoiceRole(answer) = "Audit"
             THEN /\ BeginSpecSession("Audit")
                  /\ UNCHANGED <<description, asked>>
             ELSE IF description = None
             THEN /\ pc' = "ask_description"
                  /\ asked' = TRUE
                  /\ UNCHANGED <<description, spec_role, started>>
             ELSE /\ GateOnDescription(description, "SpecInterview")
                  /\ UNCHANGED asked
    /\ UNCHANGED <<config, spec_file, tests_file, repo, detected, offered,
                   spec_outcome, spec_stdout, wrote_spec, cursor, results,
                   qa_in_turn, exit_status>>

\* The operator answers "What do you want to build?"; end of input returns.
AskDescription ==
    /\ pc = "ask_description"
    /\ \E answer \in {None} \cup {Some(l) : l \in DescriptionLines} :
          IF answer = None
          THEN /\ pc' = "aborted"
               /\ UNCHANGED <<description, spec_role, started>>
          ELSE GateOnDescription(
                   Some(Strip(answer[1])),
                   IF offered THEN "SpecInterview" ELSE StandardRole(non_interactive))
    /\ UNCHANGED <<config, spec_file, tests_file, repo, detected, offered,
                   asked, spec_outcome, spec_stdout, wrote_spec, cursor,
                   results, qa_in_turn, choice, exit_status>>

\* How a spec-phase agent process can end.  The interactive sessions ignore the
\* exit code and capture nothing; the one-shot session captures stdout.
SpecOutcomes(role) ==
    IF role = "SpecOneShot"
    THEN {[kind |-> "not_found", rc |-> 1, stdout |-> <<>>],
          [kind |-> "exit", rc |-> 1, stdout |-> <<>>],
          [kind |-> "exit", rc |-> 1, stdout |-> <<"s">>],
          [kind |-> "exit", rc |-> 0, stdout |-> <<>>],
          [kind |-> "exit", rc |-> 0, stdout |-> <<" ">>],
          [kind |-> "exit", rc |-> 0, stdout |-> <<"s">>]}
    ELSE {[kind |-> k, rc |-> c, stdout |-> <<>>] :
              k \in {"exit", "interrupt"}, c \in {0, 1}}
          \cup {[kind |-> "not_found", rc |-> 1, stdout |-> <<>>]}

\* result.stdout: only the one-shot session captures, and only a process that
\* ran has a result.
Captured(role, o) ==
    IF role = "SpecOneShot" /\ o.kind = "exit" THEN Some(o.stdout) ELSE None

\* Mutant: the captured text is written without being stripped.
OrchestratorWritesUnstripped(o) ==
    o.kind = "exit" /\ o.rc = 0 /\ o.stdout # <<>>

\* run_non_interactive_spec_generation writes the captured text to app_spec.txt.
OrchestratorWrites(o) ==
    o.kind = "exit" /\ o.rc = 0 /\ Strip(o.stdout) # <<>>

\* Mutant: the session having run is taken for the spec having been written.
SpecCreatedUnchecked(role, o, exists_after) == o.kind # "not_found"

\* Mutant: exit code 0 is taken for the spec having been written.
SpecCreatedByExit(role, o, exists_after) ==
    IF o.kind = "exit" /\ o.rc = 0 THEN TRUE
    ELSE IF o.kind = "not_found" \/ role = "SpecOneShot" THEN FALSE
    ELSE exists_after

\* Mutant: an interrupted session is reported as not completed.
SpecCreatedInterruptFails(role, o, exists_after) ==
    IF o.kind \in {"not_found", "interrupt"} THEN FALSE
    ELSE IF role = "SpecOneShot"
    THEN IF o.rc # 0 \/ Strip(o.stdout) = <<>> THEN FALSE ELSE exists_after
    ELSE exists_after

\* The value the spec-phase function returns, given the file state afterwards.
SpecCreated(role, o, exists_after) ==
    IF o.kind = "not_found" THEN FALSE
    ELSE IF role = "SpecOneShot"
    THEN IF o.rc # 0 \/ Strip(o.stdout) = <<>> THEN FALSE ELSE exists_after
    ELSE exists_after

OutcomeName(o) ==
    IF o.kind = "exit" THEN (IF o.rc = 0 THEN "exit0" ELSE "exit_nonzero") ELSE o.kind

\* What the agent did to the repository while it ran.
Grown(grow) ==
    /\ has_git' = (has_git \/ grow)
    /\ commit_count' = IF grow THEN CommitThreshold ELSE commit_count
    /\ source_files' = IF grow THEN source_files \cup {OwnSource} ELSE source_files

\* The spec-phase agent process ends and the spec-phase function returns.
EndSpecSession ==
    /\ pc = "spec_session"
    /\ \E o \in SpecOutcomes(spec_role), mk_spec, mk_tests, grow \in BOOLEAN :
          LET ran == o.kind # "not_found"
              wrote == spec_role = "SpecOneShot" /\ OrchestratorWrites(o)
              after == spec_file \/ (ran /\ mk_spec) \/ wrote
          IN  /\ (~ran => ~mk_spec /\ ~mk_tests /\ ~grow)
              /\ spec_file' = after
              /\ tests_file' = (tests_file \/ mk_tests)
              /\ Grown(grow)
              /\ wrote_spec' = wrote
              /\ spec_outcome' = OutcomeName(o)
              /\ spec_stdout' = Captured(spec_role, o)
              /\ pc' = IF SpecCreated(spec_role, o, after) THEN "step2" ELSE "gate_failed"
    /\ UNCHANGED <<config, description, detected, offered, asked, spec_role,
                   cursor, results, history, choice, exit_status>>

\* ------------------------------------------------- step 2: session type
\* Mutant: every run is taken for a first run.
IsFirstRunAlways(tests) == TRUE

\* is_first_run = not tests_file.exists()
IsFirstRun(tests) == ~tests

\* Mutant: the two first-run prompts are swapped.
FirstPromptSwapped(first, mat) ==
    IF first THEN (IF mat = "existing" THEN "Initializer" ELSE "Enhancer")
    ELSE NoPrompt

\* The first-run prompt selected at step 2.
FirstPrompt(first, mat) ==
    IF first THEN (IF mat = "existing" THEN "Enhancer" ELSE "Initializer")
    ELSE NoPrompt

\* Mutant: the maturity is detected again at step 2.
MaturityAtStep2Redetected(detected_earlier, git, count, files) ==
    DetectProjectMaturity(git, count, files)

\* 'if maturity == "existing"' at step 2 reads the local assigned at startup
\* ("Use maturity detected earlier"); the directory is not looked at again.
MaturityAtStep2(detected_earlier, git, count, files) == detected_earlier

Step2 ==
    /\ pc = "step2"
    /\ is_first_run' = IsFirstRun(tests_file)
    /\ LET mat == MaturityAtStep2(maturity, has_git, commit_count, source_files)
           fp == FirstPrompt(is_first_run', mat)
       IN  IF fp # NoPrompt /\ ~Loads(templates, fp)
           THEN pc' = "fault" /\ UNCHANGED first_prompt
           ELSE pc' = "loop" /\ first_prompt' = fp
    /\ iteration' = 0
    /\ UNCHANGED <<config, description, spec_file, tests_file, repo, detected,
                   gate, prompt, results, history, choice, exit_status>>

\* ------------------------------------------------------------ main loop
\* "if max_iterations": None and 0 are falsy.
Truthy(m) == m # None /\ m[1] # 0

\* Mutant: the cap check is off by one.
CapReachedAtCap(m, it) == Truthy(m) /\ it >= m[1]

\* Mutant: "iteration > (max_iterations or 0)".
CapReachedNoneIsZero(m, it) == it > (IF m = None THEN 0 ELSE m[1])

\* Mutant: the loop runs one turn past the cap.
CapReachedLate(m, it) == Truthy(m) /\ it > m[1] + 1

\* "if max_iterations and iteration > max_iterations"
CapReached(m, it) == Truthy(m) /\ it > m[1]

\* Mutant: the coding prompt is used on every turn.
ChoosePromptCodingOnly(fp) == "Coding"

\* "if first_prompt is not None: prompt = first_prompt, else the coding prompt"
ChoosePrompt(fp) == IF fp # NoPrompt THEN fp ELSE "Coding"

\* Mutant: the first-run prompt is not cleared.
KeepFirstPrompt(fp) == fp

\* "first_prompt = None  # Only use initializer/enhancer once"
ConsumeFirstPrompt(fp) == NoPrompt

\* Mutant: "if iteration > 1".
QaFollowsLaterOnly(first, it) == it > 1

\* Mutant: the QA review follows every successful session.
QaFollowsAlways(first, it) == TRUE

\* "if not is_first_run or iteration > 1": the QA review follows.
QaFollows(first, it) == ~first \/ it > 1

\* "if return_code == 0"
Succeeded(rc) == rc = 0

\* Mutant: a failed session ends the loop.
AfterPrimaryStopOnFailure(rc, first, it) ==
    IF Succeeded(rc)
    THEN (IF QaFollows(first, it) THEN "qa_due" ELSE "loop")
    ELSE "halted"

\* Where control goes when run_cli_session has returned rc: to the QA review on
\* a success that is not the initialization session, else to the loop head.
AfterPrimary(rc, first, it) ==
    IF Succeeded(rc)
    THEN (IF QaFollows(first, it) THEN "qa_due" ELSE "loop")
    ELSE "loop"

\* (output, return_code) of run_cli_session and run_qa_session: the exit code of
\* the agent, ("claude CLI not found", 1), or (str(e), 1) on another exception.
CliResults ==
    {<<"", 0>>, <<"", 2>>, <<"claude CLI not found", 1>>, <<"error", 1>>}

\* iteration += 1 and the cap check.  Runs the cap never stops are followed
\* for MaxTurns iterations.
NextIteration ==
    /\ pc = "loop"
    /\ Truthy(max_iterations) \/ iteration < MaxTurns
    /\ iteration' = iteration + 1
    /\ qa_in_turn' = 0
    /\ pc' = IF CapReached(max_iterations, iteration') THEN "halted" ELSE "choose"
    /\ UNCHANGED <<config, description, spec_file, tests_file, repo, detected,
                   gate, is_first_run, first_prompt, prompt, results, started,
                   choice, exit_status>>

\* The prompt is chosen and run_cli_session starts the agent process.
StartPrimary ==
    /\ pc = "choose"
    /\ LET role == ChoosePrompt(first_prompt)
       IN  IF first_prompt = NoPrompt /\ ~Loads(templates, role)
           THEN /\ pc' = "fault"
                /\ UNCHANGED <<first_prompt, prompt, started>>
           ELSE /\ pc' = "primary"
                /\ prompt' = role
                /\ first_prompt' = ConsumeFirstPrompt(first_prompt)
                /\ started' = [started EXCEPT ![role] = @ + 1]
    /\ UNCHANGED <<config, description, spec_file, tests_file, repo, detected,
                   gate, is_first_run, iteration, results, qa_in_turn, choice,
                   exit_status>>

\* run_cli_session returns; on success the QA review is due unless this was the
\* initialization session, otherwise the turn is over.
EndPrimary ==
    /\ pc = "primary"
    /\ \E r \in CliResults, mk_tests \in BOOLEAN :
          /\ (r[1] # "" => ~mk_tests)
          /\ output' = r[1]
          /\ return_code' = r[2]
          /\ tests_file' = (tests_file \/ mk_tests)
          /\ pc' = AfterPrimary(r[2], is_first_run, iteration)
    /\ UNCHANGED <<config, description, spec_file, repo, detected, gate,
                   cursor, qa_return_code, history, choice, exit_status>>

\* run_qa_session loads its prompt and starts the agent process.
StartQa ==
    /\ pc = "qa_due"
    /\ IF Loads(templates, "Qa")
       THEN /\ pc' = "qa"
            /\ started' = [started EXCEPT !["Qa"] = @ + 1]
            /\ qa_in_turn' = qa_in_turn + 1
       ELSE /\ pc' = "fault"
            /\ UNCHANGED <<started, qa_in_turn>>
    /\ UNCHANGED <<config, description, spec_file, tests_file, repo, detected,
                   gate, cursor, results, choice, exit_status>>

\* Mutant: a failed QA review sends the turn back to its session.
AfterQaRetry(qa_rc) == IF qa_rc = 0 THEN "loop" ELSE "choose"

\* Where control goes when run_qa_session has returned qa_rc: both branches of
\* "if qa_return_code == 0" only print, and the turn is over.
AfterQa(qa_rc) == "loop"

\* run_qa_session returns; its result is printed and the turn is over.
EndQa ==
    /\ pc = "qa"
    /\ \E r \in CliResults :
          /\ qa_return_code' = r[2]
          /\ pc' = AfterQa(r[2])
    /\ UNCHANGED <<config, description, spec_file, tests_file, repo, detected,
                   gate, cursor, output, return_code, history, choice,
                   exit_status>>

\* The status the process ends with when run_autonomous_agent is left at pc:
\* main() returns after every return of run_autonomous_agent, an exception
\* that nothing catches ends the interpreter with status 1.
ExitStatusAt(at) == IF at = "fault" THEN 1 ELSE 0

\* run_autonomous_agent has returned or raised; main() ends the process.
ProcessExit ==
    /\ pc \in {"aborted", "gate_failed", "halted", "fault"}
    /\ exit_status = None
    /\ exit_status' = Some(ExitStatusAt(pc))
    /\ UNCHANGED <<pc, config, description, spec_file, tests_file, repo,
                   detected, choice, gate, cursor, results, history>>

Next ==
    \/ SetupProject
    \/ DetectMaturity
    \/ SpecCheck
    \/ Choice
    \/ AskDescription
    \/ EndSpecSession
    \/ Step2
    \/ NextIteration
    \/ StartPrimary
    \/ EndPrimary
    \/ StartQa
    \/ EndQa
    \/ ProcessExit

Spec == Init /\ [][Next]_vars

\* A run whose prompts directory may lack one template: load_prompt raises
\* where the template is first needed.
InitTemplates ==
    /\ pc = "setup"
    /\ max_iterations = Some(MaxCap)
    /\ description \in {None, Some(<<"d">>)}
    /\ non_interactive \in BOOLEAN
    /\ audit \in BOOLEAN
    /\ templates \in {AllTemplates} \cup {AllTemplates \ {t} : t \in AllTemplates}
    /\ harness_hooks = TRUE
    /\ spec_file \in BOOLEAN
    /\ spec_at_start = spec_file
    /\ tests_file \in BOOLEAN
    /\ has_git \in BOOLEAN
    /\ commit_count = IF has_git THEN CommitThreshold ELSE 0
    /\ source_files \in {{}, {OwnSource}}
    /\ maturity = "None"
    /\ maturity_details = NoDetails
    /\ choice = None
    /\ offered = FALSE
    /\ asked = FALSE
    /\ spec_role = "None"
    /\ spec_outcome = "None"
    /\ spec_stdout = None
    /\ wrote_spec = FALSE
    /\ is_first_run = FALSE
    /\ first_prompt = NoPrompt
    /\ iteration = 0
    /\ prompt = "None"
    /\ output = ""
    /\ return_code = 0
    /\ qa_return_code = 0
    /\ started = [r \in Roles |-> 0]
    /\ qa_in_turn = 0
    /\ exit_status = None

SpecTemplates == InitTemplates /\ [][Next]_vars

\* A run with a positive cap and every template loadable.
InitCapped ==
    /\ pc = "setup"
    /\ max_iterations \in {Some(n) : n \in 1 .. MaxCap}
    /\ description \in {None, Some(<<"d">>)}
    /\ non_interactive \in BOOLEAN
    /\ audit \in BOOLEAN
    /\ templates = AllTemplates
    /\ harness_hooks = TRUE
    /\ spec_file \in BOOLEAN
    /\ spec_at_start = spec_file
    /\ tests_file \in BOOLEAN
    /\ has_git \in BOOLEAN
    /\ commit_count = IF has_git THEN CommitThreshold ELSE 0
    /\ source_files \in {{}, {OwnSource}}
    /\ maturity = "None"
    /\ maturity_details = NoDetails
    /\ choice = None
    /\ offered = FALSE
    /\ asked = FALSE
    /\ spec_role = "None"
    /\ spec_outcome = "None"
    /\ spec_stdout = None
    /\ wrote_spec = FALSE
    /\ is_first_run = FALSE
    /\ first_prompt = NoPrompt
    /\ iteration = 0
    /\ prompt = "None"
    /\ output = ""
    /\ return_code = 0
    /\ qa_return_code = 0
    /\ started = [r \in Roles |-> 0]
    /\ qa_in_turn = 0
    /\ exit_status = None

\* The single thread of run_autonomous_agent takes its next step whenever it
\* has one (the delays between turns are finite sleeps), and the subprocess.run
\* of a primary or QA session returns: every such agent process terminates.
\* Nothing is assumed of the operator or of the spec-phase session.
SpecCapped ==
    /\ InitCapped
    /\ [][Next]_vars
    /\ WF_vars(Step2)
    /\ WF_vars(NextIteration)
    /\ WF_vars(StartPrimary)
    /\ WF_vars(EndPrimary)
    /\ WF_vars(StartQa)
    /\ WF_vars(EndQa)
    /\ WF_vars(ProcessExit)

\* =============================================================== claims
FirstStarted == started["Initializer"] + started["Enhancer"]
PrimaryStarted == FirstStarted + started["Coding"]
SpecStarted == started["Audit"] + started["SpecInterview"] + started["SpecOneShot"]
PositiveCap == max_iterations # None /\ max_iterations[1] > 0
PastSpecCheck == pc \notin {"setup", "detect", "spec_check"}

\* C1: when a turn whose primary session was a Coding session is over and the
\* iteration counter has not advanced yet, exactly one Qa session was started in
\* the turn if the Coding session returned 0, and none if it returned non-zero.
C1_QaFollowsCoding ==
    (pc = "loop" /\ iteration >= 1 /\ prompt = "Coding") =>
        /\ (return_code = 0 => qa_in_turn = 1)
        /\ (return_code # 0 => qa_in_turn = 0)

\* Two Coding sessions so far, one failed (no Qa) and the last one succeeded
\* and was followed by its Qa session.
C1_Witness ==
    /\ pc = "loop" /\ prompt = "Coding" /\ return_code = 0 /\ qa_in_turn = 1
    /\ started["Coding"] = 2 /\ started["Qa"] = 1 /\ FirstStarted = 0

\* C2 as stated: a run with cap N > 0 that halts has started exactly N Coding
\* sessions, the first session not counted.
C2_Original ==
    (pc = "halted" /\ PositiveCap) => started["Coding"] = max_iterations[1]

\* C2 amended: a run with cap N > 0 that halts has started exactly N primary
\* sessions, the first session counted: N - 1 Coding sessions after a first
\* session, N without one; and the run raised no fault on the way.
C2_CapCountsPrimarySessions ==
    /\ (pc = "halted" /\ PositiveCap) =>
           /\ PrimaryStarted = max_iterations[1]
           /\ started["Coding"] = max_iterations[1] - FirstStarted
           /\ iteration = max_iterations[1] + 1
    /\ (PositiveCap => pc # "fault")

C2_Witness ==
    /\ pc = "halted" /\ PositiveCap /\ max_iterations[1] = 2
    /\ FirstStarted = 1 /\ started["Coding"] = 1

\* C3: while an Initializer, Enhancer, Coding or Qa session runs, and whenever
\* one has been started, app_spec.txt is present.
C3_NoSessionWithoutSpec ==
    /\ (pc \in {"primary", "qa"} => spec_file)
    /\ (PrimaryStarted + started["Qa"] > 0 => spec_file)

\* A primary session runs after an interrupted spec-phase session left the spec.
C3_Witness ==
    pc = "primary" /\ spec_outcome = "interrupt" /\ spec_file

\* C4: once the spec-phase session has ended with app_spec.txt absent, the run
\* is at its return with exactly one spec-phase session started (no retry) and
\* no Initializer, Enhancer, Coding or Qa session started.
C4_SpecGateIsHard ==
    (spec_outcome # "None" /\ ~spec_file) =>
        /\ pc = "gate_failed"
        /\ SpecStarted = 1
        /\ PrimaryStarted + started["Qa"] = 0

\* The session exited 0 and left no spec.
C4_Witness ==
    pc = "gate_failed" /\ ~spec_file /\ spec_outcome = "exit0"

\* C5: while an Initializer or Enhancer session is being started, the manifest
\* feature_list.json is absent; on every turn with the manifest present the
\* session started is not an Initializer or Enhancer session.
C5_NoFirstSessionWithManifest ==
    (pc = "primary" /\ tests_file) => prompt \notin FirstRoles

\* The first session produced the manifest and the next turn runs with it.
C5_Witness ==
    /\ pc = "primary" /\ tests_file /\ is_first_run /\ iteration = 2
    /\ FirstStarted = 1

\* C6: at most one Initializer-or-Enhancer session is started, at iteration 1
\* and before any Coding or Qa session; the prompt is cleared when it is used,
\* and every primary session after it is a Coding session.
C6_FirstPromptConsumedOnce ==
    /\ FirstStarted <= 1
    /\ (pc = "primary" /\ prompt \in FirstRoles) =>
           iteration = 1 /\ started["Coding"] = 0 /\ started["Qa"] = 0
    /\ (pc = "primary" /\ iteration > 1) => prompt = "Coding"
    /\ (FirstStarted = 1 => first_prompt = NoPrompt)

\* The first session failed and the next primary session is a Coding session.
C6_Witness ==
    /\ pc = "primary" /\ iteration = 2 /\ prompt = "Coding"
    /\ FirstStarted = 1 /\ return_code # 0

\* C7: with audit = true the operator is never shown the choice and never
\* asked for a description, and past the startup check either the spec was
\* there or the spec-phase session is the Audit session.
C7_AuditFlagSelectsAudit ==
    audit =>
        /\ ~offered /\ ~asked
        /\ spec_role \in {"None", "Audit"}
        /\ (PastSpecCheck => (spec_role = "Audit" \/ (spec_role = "None" /\ spec_file)))

\* The Audit session runs where the offer would have been made otherwise.
C7_Witness ==
    /\ pc = "spec_session" /\ audit /\ spec_role = "Audit"
    /\ maturity = "existing" /\ ~non_interactive

\* C8: the first session of a first run is an Enhancer session iff the startup
\* maturity is existing and an Initializer session iff it is greenfield, and no
\* run starts both.
C8_FirstRoleFollowsMaturity ==
    /\ (pc = "primary" /\ is_first_run /\ iteration = 1) =>
           /\ (prompt = "Enhancer" <=> maturity = "existing")
           /\ (prompt = "Initializer" <=> maturity = "greenfield")
    /\ (started["Enhancer"] > 0 => maturity = "existing")
    /\ (started["Initializer"] > 0 => maturity = "greenfield")
    /\ ~(started["Enhancer"] > 0 /\ started["Initializer"] > 0)

C8_Witness ==
    /\ pc = "primary" /\ prompt = "Enhancer" /\ maturity = "existing"
    /\ spec_role = "None"

\* C9: when a primary session returns non-zero (the binary not found is return
\* code 1 with the "not found" text) control goes to the loop head;
\* from the loop head after a failed session the next step starts the next
\* iteration unless the cap is reached; an iteration that starts runs a session.
C9_FailureDoesNotStopLoop ==
    [][/\ (pc = "primary" /\ return_code' # 0) => pc' = "loop"
       /\ (pc = "loop" /\ iteration >= 1 /\ return_code # 0) =>
              \/ pc' = "choose"
              \/ pc' = "halted" /\ PositiveCap /\ iteration' > max_iterations[1]
       /\ (pc = "choose") => pc' = "primary"
       /\ (output' = "claude CLI not found") => return_code' = 1]_vars

\* The third Coding session of an uncapped run starts after two failed ones.
C9_Witness ==
    /\ pc = "primary" /\ max_iterations = None /\ ~is_first_run
    /\ iteration = 3 /\ started["Qa"] = 0 /\ output = "claude CLI not found"

\* C10: a run with max_iterations = None never reaches the final summary; from
\* the loop head it always goes on to choose the next session's prompt.
C10_UnlimitedNeverHalts ==
    [][max_iterations = None =>
           /\ pc' # "halted"
           /\ (pc = "loop" => pc' = "choose")
           /\ (pc = "choose" => pc' = "primary")]_vars

\* An uncapped run starts another session after successes and failures.
C10_Witness ==
    /\ pc = "primary" /\ max_iterations = None /\ iteration = MaxTurns
    /\ FirstStarted = 0 /\ started["Qa"] >= 1 /\ started["Qa"] < iteration - 1

AnyStarted == SpecStarted + PrimaryStarted + started["Qa"]

\* C11: at most one spec-phase session is started in a run, while it runs the
\* spec was absent when it started, and a run that began with app_spec.txt
\* present starts none, whatever the audit flag.
C11_SpecPhaseOnlyWithoutSpec ==
    /\ SpecStarted <= 1
    /\ (pc = "spec_session" => ~spec_file /\ ~spec_at_start)
    /\ (spec_at_start => SpecStarted = 0 /\ spec_role = "None")

\* The spec was there at startup, audit = true, and the run is in a primary
\* session without a spec-phase session.
C11_Witness ==
    pc = "primary" /\ spec_at_start /\ audit /\ SpecStarted = 0

\* C12: the maturity returned is existing iff .git is present, the commit
\* count read is >= 5 and a recognized source file was found, else greenfield;
\* without .git it is greenfield for every set of files; with the other two
\* true, 5 commits give existing and 4 give greenfield.
C12_MaturityIffAllThree ==
    maturity # "None" =>
        LET d == maturity_details
            found == d.source_files_found # {}
        IN  /\ maturity \in {"existing", "greenfield"}
            /\ (maturity = "existing" <=>
                    (d.has_git /\ d.commit_count >= 5 /\ found))
            /\ (~d.has_git => maturity = "greenfield")
            /\ (d.has_git /\ found /\ d.commit_count = 5 => maturity = "existing")
            /\ (d.has_git /\ found /\ d.commit_count = 4 => maturity = "greenfield")

\* .git and a source file are there, with 4 commits: greenfield.
C12_Witness ==
    /\ pc = "spec_check" /\ maturity = "greenfield"
    /\ maturity_details.has_git /\ maturity_details.commit_count = 4
    /\ maturity_details.source_files_found # {}

\* C13 as stated: a run that returned for want of a description started no
\* agent session and its process ended with a non-zero exit status.
C13_Original ==
    (pc = "aborted" /\ exit_status # None) =>
        AnyStarted = 0 /\ exit_status[1] # 0

\* C14 as stated: when loading a prompt template fails, no agent session of the
\* run has been started.
C14_Original ==
    pc = "fault" => AnyStarted = 0

\* C15 as stated: with a cap configured, whatever its value, no primary session
\* runs at an iteration above the cap.
C15_Original ==
    (pc = "primary" /\ max_iterations # None) => iteration <= max_iterations[1]

\* C16: a Qa session is due or running only in a turn whose primary session was
\* a Coding session that returned 0, at most once in the turn; the turn of an
\* Initializer or Enhancer session starts none; no Qa session is started before
\* a Coding session was.
C16_QaOnlyAfterSuccessfulCoding ==
    /\ (pc \in {"qa_due", "qa"} =>
           prompt = "Coding" /\ return_code = 0 /\ qa_in_turn <= 1)
    /\ (pc = "qa" => qa_in_turn = 1)
    /\ (prompt \in FirstRoles => qa_in_turn = 0 /\ pc \notin {"qa_due", "qa"})
    /\ started["Qa"] <= started["Coding"]

\* The first session returned 0 and its turn is over without a Qa session.
C16_Witness ==
    /\ pc = "loop" /\ iteration = 1 /\ prompt \in FirstRoles
    /\ return_code = 0 /\ started["Qa"] = 0

\* C17 as stated: a Coding session runs only with both artifacts present.
C17_Original ==
    (pc = "primary" /\ prompt = "Coding") => spec_file /\ tests_file

\* C17 amended: a Coding session runs only with the spec present and either the
\* manifest found at the startup check or the first-run prompt already used
\* (iteration > 1); the first turn of a run whose startup check found the
\* manifest absent runs an Initializer or Enhancer session, never Coding; a run
\* whose startup check found the manifest has it on every turn.
C17_CodingAfterFirstPromptUsed ==
    /\ (pc = "primary" /\ prompt = "Coding") =>
           spec_file /\ (~is_first_run \/ iteration > 1)
    /\ (pc = "primary" /\ is_first_run /\ iteration = 1) => prompt \in FirstRoles
    /\ (pc = "primary" /\ ~is_first_run) => tests_file

\* The first session left no manifest and the second turn runs Coding.
C17_Witness ==
    /\ pc = "primary" /\ prompt = "Coding" /\ ~tests_file /\ iteration = 2
    /\ FirstStarted = 1

\* C18: when run_qa_session returns, whatever it returns, control is at the
\* loop head with iteration, is_first_run, first_prompt, the prompt and the
\* session's result unchanged; the turn's next step is the next iteration; the
\* iteration counter only moves at the loop head, by one.
C18_QaOutcomeIgnored ==
    [][/\ (pc = "qa" =>
              /\ pc' = "loop"
              /\ UNCHANGED <<iteration, is_first_run, first_prompt, prompt,
                             return_code, output, started, qa_in_turn>>)
       /\ (pc = "loop" /\ qa_in_turn = 1 =>
              pc' \in {"choose", "halted"} /\ iteration' = iteration + 1)
       /\ (iteration' # iteration => pc = "loop" /\ iteration' = iteration + 1)]_vars

\* A turn is over whose Coding session returned 0 and whose Qa session failed.
C18_Witness ==
    /\ pc = "loop" /\ qa_in_turn = 1 /\ qa_return_code # 0 /\ return_code = 0
    /\ iteration = 2

\* C19 as stated: after an interrupted interactive session the run is at its
\* return, not on its way to coding.
C19_Original ==
    spec_outcome = "interrupt" => pc = "gate_failed"

\* C19 amended: the interrupt raises no fault, and the run is at its return
\* exactly when app_spec.txt is absent; with the spec written before the
\* interrupt the function returns true and the run goes on to coding.
C19_InterruptThenFileDecides ==
    spec_outcome = "interrupt" =>
        /\ spec_role \in {"Audit", "SpecInterview"}
        /\ pc # "fault"
        /\ (pc = "gate_failed" <=> ~spec_file)

\* The audit was interrupted after the spec was written; the run goes on.
C19_Witness ==
    pc = "step2" /\ spec_outcome = "interrupt" /\ spec_role = "Audit"

\* C20: past the startup check the choice has been shown iff the spec was
\* absent at startup, audit = false, maturity is existing and non_interactive =
\* false; once answered, the stripped answer "2" selects the interview (no
\* other session) and every other answer the Audit session.
C20_ChoiceOfferedAndRead ==
    /\ PastSpecCheck =>
           (offered <=> (~spec_at_start /\ ~audit /\ maturity = "existing"
                           /\ ~non_interactive))
    /\ (pc = "choice" => offered /\ choice = None)
    /\ (choice # None =>
           /\ offered
           /\ IF choice[1] = <<"2">>
              THEN /\ spec_role \in {"None", "SpecInterview"}
                   /\ (pc = "spec_session" => spec_role = "SpecInterview")
              ELSE spec_role = "Audit")

\* The operator just pressed Enter and the Audit session runs.
C20_Witness ==
    pc = "spec_session" /\ choice = Some(<<>>) /\ spec_role = "Audit"

\* C21: maturity and its details are assigned only by the detection at
\* startup, once, before any session; the first-run prompt chosen at step 2
\* and the first session started follow that value (Enhancer iff the details
\* read at startup make the project existing), whatever the directory is now.
C21_MaturityComputedOnce ==
    [][/\ (maturity' # maturity =>
              pc = "detect" /\ maturity = "None" /\ AnyStarted = 0)
       /\ (maturity_details' # maturity_details => pc = "detect")
       /\ (pc = "step2" /\ pc' = "loop" =>
              first_prompt' = IF tests_file THEN NoPrompt
                              ELSE IF maturity = "existing" THEN "Enhancer"
                              ELSE "Initializer")
       /\ (pc = "choose" /\ pc' = "primary" /\ prompt' \in FirstRoles =>
              (prompt' = "Enhancer" <=>
                   /\ maturity_details.has_git
                   /\ maturity_details.commit_count >= 5
                   /\ maturity_details.source_files_found # {}))]_vars

\* The spec-phase session turned a directory without .git into a repository
\* with 5 commits and a source file; the first session is the Initializer.
C21_Witness ==
    /\ pc = "primary" /\ prompt = "Initializer" /\ maturity = "greenfield"
    /\ ~maturity_details.has_git /\ spec_outcome # "None"
    /\ has_git /\ commit_count >= 5 /\ OwnSource \in source_files

\* C22: once the one-shot spec generation has returned, the orchestrator wrote
\* app_spec.txt iff the process exited 0 with output that is not all
\* whitespace; when it wrote the spec is there and the run goes on; when it did
\* not (non-zero exit, empty output, binary not found) the function returned
\* false: the run is at its return with no other session started.  No other
\* spec-phase session makes the orchestrator write.
C22_OneShotWritesIffOutput ==
    /\ (spec_role = "SpecOneShot" /\ spec_outcome # "None") =>
           LET text == spec_stdout # None /\
                       \E i \in 1 .. Len(spec_stdout[1]) : spec_stdout[1][i] # " "
           IN  /\ (wrote_spec <=> (spec_outcome = "exit0" /\ text))
               /\ (wrote_spec => spec_file /\ pc # "gate_failed")
               /\ (~wrote_spec =>
                      pc = "gate_failed" /\ PrimaryStarted + started["Qa"] = 0)
               /\ (spec_outcome = "not_found" => spec_stdout = None)
    /\ (wrote_spec => spec_role = "SpecOneShot")

\* The process exited 0 and printed only whitespace: nothing is written.
C22_Witness ==
    /\ pc = "gate_failed" /\ spec_role = "SpecOneShot" /\ spec_outcome = "exit0"
    /\ spec_stdout = Some(<<" ">>) /\ ~wrote_spec

\* C23: with a positive cap N, the iteration counter equals the number of
\* primary sessions started while a turn runs (one more while the next one is
\* being chosen), a Qa session starting does not move it, and a run that is
\* past the spec gate and whose agent processes terminate reaches the final
\* summary, having started exactly N primary sessions.
C23_CappedRunHaltsAfterNSessions ==
    /\ [](PositiveCap =>
             /\ (pc \in {"loop", "primary", "qa_due", "qa"} =>
                    iteration = PrimaryStarted)
             /\ (pc = "choose" => iteration = PrimaryStarted + 1)
             /\ (pc = "halted" => PrimaryStarted = max_iterations[1]))
    /\ [][started'["Qa"] # started["Qa"] => iteration' = iteration]_vars
    /\ ((PositiveCap /\ pc = "step2") ~>
            (pc = "halted" /\ PrimaryStarted = max_iterations[1]))

\* A capped run without a first session is at the final summary after a Coding
\* session that succeeded (with its Qa session) and one that failed.
C23_Witness ==
    /\ pc = "halted" /\ max_iterations = Some(MaxCap) /\ FirstStarted = 0
    /\ started["Qa"] = MaxCap - 1 /\ return_code # 0 /\ exit_status # None

\* C24: with non_interactive = true, audit = false and a non-empty description
\* supplied, the startup check that finds the spec absent starts the one-shot
\* spec generation at once, for either maturity; such a run never waits at an
\* input() and never starts the Audit or the interview session.
C24_NonInteractiveNeverBlocks ==
    [][LET given == /\ non_interactive /\ ~audit /\ ~asked
                    /\ description # None /\ description[1] # <<>>
       IN  /\ (given /\ pc = "spec_check" /\ ~spec_file =>
                  /\ pc' = "spec_session"
                  /\ spec_role' = "SpecOneShot"
                  /\ started'["SpecOneShot"] = 1
                  /\ UNCHANGED <<description, offered, asked, choice>>)
           /\ (given /\ ~spec_at_start =>
                  /\ pc' \notin {"choice", "ask_description"}
                  /\ ~offered' /\ ~asked' /\ choice' = None
                  /\ started'["Audit"] = 0
                  /\ started'["SpecInterview"] = 0)]_vars

\* An existing project, a description of one blank, and the one-shot session.
C24_Witness ==
    /\ pc = "spec_session" /\ spec_role = "SpecOneShot" /\ maturity = "existing"
    /\ non_interactive /\ ~audit /\ description = Some(<<" ">>) /\ ~asked

\* C25 as stated: the maturity the run uses is the one detect_project_maturity
\* gives for the directory without the files setup_project copied into it.
C25_Original ==
    maturity # "None" =>
        maturity = DetectProjectMaturity(
                       maturity_details.has_git,
                       maturity_details.commit_count,
                       maturity_details.source_files_found \ {HookScript})

====
